---- MODULE Spec2Model ----
(***************************************************************************)
(* The G2 client of sdk/src/index.ts (carried in                           *)
(* src/sdk/examples/teleprompter.ts): a request/response correlator over   *)
(* a WebSocket to the BLE bridge, with auto-reconnect and an event stream. *)
(***************************************************************************)
EXTENDS Integers, Sequences, FiniteSets, TLC

\* ---------------------------------------------------------------- bounds
MaxSockets == 2
MaxId == 2
MaxClock == 3
MaxDeliveries == 2

\* ------------------------------------------------------------ vocabulary
Absent == "absent"
EventNames == {"response", "disconnected"}
Handlers == {"h1", "hThrow"}
ErrLost == "Bridge connection lost"
ErrNotConnected == "Not connected to bridge"
ErrNone == "none"
ErrWrite == "write failed"

Ids == 1..MaxId

\* The texts a socket can deliver to onmessage, by what JSON.parse makes of them.
NonObjectKinds == {"invalid", "null", "number", "string", "array"}

RawMessage(k, e, d, i, er, r) ==
    [kind |-> k, event |-> e, data |-> d, id |-> i, error |-> er, result |-> r]

NoMessage == RawMessage("none", Absent, Absent, 0, Absent, Absent)

\* The (error, result) pairs of the responses: a bare acknowledgement, a result,
\* a null error, and an error object (beside a result, which it overrides).
ResponseBodies == {<<Absent, Absent>>, <<Absent, "r1">>, <<"null", Absent>>, <<"E1", "r1">>}

RawMessages ==
    {RawMessage(k, Absent, Absent, 0, Absent, Absent) : k \in NonObjectKinds}
    \cup {RawMessage("object", e, d, 0, Absent, Absent) :
            e \in EventNames, d \in {Absent, "d1"}}
    \cup {RawMessage("object", "response", Absent, 1, Absent, "r1")}
    \cup {RawMessage("object", Absent, Absent, 0, Absent, "r1")}
    \cup {RawMessage("object", Absent, Absent, i, b[1], b[2]) :
            i \in Ids, b \in ResponseBodies}

VARIABLES
    sockets,        \* every WebSocket created so far: [readyState, conn, awaited]
    ws,             \* this.ws: index into sockets, 0 for null
    pending,        \* this.pending: id -> the request's entry, with the socket
                    \* ws.send wrote it to and the time of the send
    listeners,      \* this.listeners: event -> handlers in insertion order
    idCounter,      \* this.idCounter
    closed,         \* this.closed
    reconnectTimer, \* this.reconnectTimer is non-null
    autoReconnect,  \* this.autoReconnect, fixed by the constructor
    settled,        \* per request id, the resolve/reject calls made on its promise
    clock,          \* the time, in ticks
    last,           \* the operation that ran last and what it observed
    run,            \* an example's main(): the program it runs and where it stands
    log,            \* what was observed so far: the frames main() had written,
                    \* or the messages delivered to handleMessage
    raw,            \* the response frame handed to printResponse, as bytes
    printed,        \* what printResponse printed for it
    armed,          \* the reconnect timers set by setTimeout and neither fired
                    \* nor cleared
    pbCall,         \* a call of a protobuf helper of device-info: its arguments
    pbRet           \* what that call returned

vars == <<sockets, ws, pending, listeners, idCounter, closed, reconnectTimer,
          autoReconnect, settled, clock, last, run, log, raw, printed, armed,
          pbCall, pbRet>>

Outcome(k, v) == [kind |-> k, val |-> v]

\* What handleMessage can raise out of ws.onmessage.
NoThrow == "none"
ThrowIn == "TypeError: cannot use 'in' operator"
ThrowCode == "TypeError: cannot read properties of null"

Last(op, id, threw, calls, err) ==
    [op |-> op, id |-> id, threw |-> threw, calls |-> calls, err |-> err]

\* new Map(): no entry.
NoPending == [i \in {} |-> [sock |-> 0, at |-> 0, method |-> ""]]

\* No main() is running: the client is driven call by call.
NoRun == [prog |-> "none", pc |-> "idle", step |-> 0, id |-> 0, sock |-> 0, wake |-> 0]

\* No helper is called, and none has returned.
NoCall == [fn |-> "none", field |-> 0, value |-> [wrap |-> 0, i32 |-> 0], data |-> <<>>]
NoRet == [done |-> FALSE, out |-> <<>>, hex |-> <<>>, pos |-> 0, fields |-> <<>>,
          status |-> "none", read |-> 0]

\* printResponse has not run.
NotPrinted == [short |-> FALSE, service |-> <<>>, payload |-> <<>>, parsed |-> FALSE,
               done |-> FALSE]

\* ------------------------------------------------------------ constructor
Init ==
    /\ sockets = <<>>
    /\ ws = 0
    /\ pending = NoPending
    /\ listeners = [e \in EventNames |-> <<>>]
    /\ idCounter = 0
    /\ closed = FALSE
    /\ reconnectTimer = FALSE
    /\ autoReconnect \in BOOLEAN
    /\ settled = [i \in Ids |-> <<>>]
    /\ clock = 0
    /\ last = Last("new", 0, NoThrow, <<>>, ErrNone)
    /\ run = NoRun
    /\ log = <<>>
    /\ raw = <<>>
    /\ printed = NotPrinted
    /\ armed = 0
    /\ pbCall = NoCall
    /\ pbRet = NoRet

\* ------------------------------------------------------- pure helpers
SocketIds == 1..Len(sockets)

\* this.ws?.readyState === WebSocket.OPEN
WsIsOpen(socks, w) == w # 0 /\ socks[w].readyState = "OPEN"

\* new WebSocket(url); conn is the promise connectBridge returned for it, awaited
\* says that the reconnect timer's callback is waiting on that promise.
NewSocket(byTimer) == [readyState |-> "CONNECTING", conn |-> "pending", awaited |-> byTimer]

\* JSON.parse(raw) throws: handleMessage returns from its catch.
ParseFails(m) == m.kind = "invalid"

\* `"event" in msg` raises a TypeError when msg is not an object (an array is one).
InOperatorThrows(m) == m.kind \in {"null", "number", "string"}

IsEvent(m) == m.kind = "object" /\ m.event # Absent

\* A message that reaches this.pending.get(id) and finds a request.
MatchesPending(m, p) ==
    /\ ~ParseFails(m)
    /\ ~InOperatorThrows(m)
    /\ ~IsEvent(m)
    /\ m.id \in DOMAIN p

\* msg.data ?? {} and msg.result ?? {}
OrEmpty(v) == IF v = Absent THEN "{}" ELSE v

\* new Error(`[${err.code}] ${err.message}`)
ErrorText(e) == IF e = "E1" THEN "[E1] m1" ELSE "[?] ?"

\* Reading err.code raises a TypeError when msg.error is null.
ErrorReadThrows(m) == m.error = "null"

\* A response branch that puts the settling off: nothing is settled in the call.
SettleFromMessage_Deferred(m) == <<>>

\* The resolve/reject calls of the response branch, made after pending.delete(id).
SettleFromMessage(m) ==
    IF m.error # Absent
    THEN IF ErrorReadThrows(m) THEN <<>>
         ELSE <<Outcome("rejected", ErrorText(m.error))>>
    ELSE <<Outcome("resolved", OrEmpty(m.result))>>

\* A handleMessage that forgets this.pending.delete(id).
PendingAfterResponse_NoDelete(p, id) == p

\* this.pending.delete(id)
PendingAfterResponse(p, id) == [k \in DOMAIN p \ {id} |-> p[k]]

\* handler(data) throws.
HandlerThrows(h) == h = "hThrow"

\* An emit without its try/catch: the loop ends at the first handler that throws.
Emit_NoCatch(ls, event, data) ==
    LET hs == ls[event]
        stop == IF \E i \in 1..Len(hs) : HandlerThrows(hs[i])
                THEN CHOOSE i \in 1..Len(hs) :
                        /\ HandlerThrows(hs[i])
                        /\ \A j \in 1..(i - 1) : ~HandlerThrows(hs[j])
                ELSE Len(hs)
    IN [i \in 1..stop |-> <<hs[i], data>>]

\* emit: every handler registered for the event is called with data, in
\* insertion order; a handler that throws is caught and the loop goes on.
Emit(ls, event, data) ==
    [i \in 1..Len(ls[event]) |-> <<ls[event][i], data>>]

\* ws.onclose: the requests it rejects, and this.pending.clear().
CloseRejects(p) == DOMAIN p

\* An onclose that forgets this.pending.clear().
PendingAfterClose_NoClear(p) == p

PendingAfterClose(p) == NoPending

\* this.pending.set(id, entry)
PendingSet(p, id, entry) ==
    [k \in DOMAIN p \cup {id} |-> IF k = id THEN entry ELSE p[k]]

\* String(this.idCounter + 1): the increment is never stored, every id is "1".
NextId_NotStored(c) == 1

\* String(++this.idCounter)
NextId(c) == c + 1

\* A scheduleReconnect that arms nothing.
ScheduleReconnect_Never(timer) == timer

\* scheduleReconnect: arms the timer unless one is armed.
ScheduleReconnect(timer) == TRUE

\* A scheduleReconnect without `if (this.reconnectTimer) return`.
TimersAfterSchedule_NoGuard(timer, n) == n + 1

\* scheduleReconnect: setTimeout is called unless this.reconnectTimer is set.
TimersAfterSchedule(timer, n) == IF timer THEN n ELSE n + 1

SeqRemove(q, h) == SelectSeq(q, LAMBDA x : x # h)

InSeq(q, h) == \E i \in 1..Len(q) : q[i] = h

\* --------------------------------------------------------------- actions
\* connectBridge(), as run by the caller (byTimer = FALSE) or by the
\* reconnect timer's callback (byTimer = TRUE).
ConnectBridgeBody(byTimer, timer) ==
    IF WsIsOpen(sockets, ws)
    THEN /\ reconnectTimer' = timer
         /\ UNCHANGED <<sockets, ws, closed>>
    ELSE /\ Len(sockets) < MaxSockets
         /\ closed' = FALSE
         /\ sockets' = Append(sockets, NewSocket(byTimer))
         /\ ws' = Len(sockets) + 1
         /\ reconnectTimer' = timer

ConnectBridge ==
    /\ ConnectBridgeBody(FALSE, reconnectTimer)
    /\ UNCHANGED armed
    /\ last' = Last("connectBridge", 0, NoThrow, <<>>, ErrNone)
    /\ UNCHANGED <<pending, listeners, idCounter, autoReconnect, settled, clock,
                   run, log, raw, printed, pbCall, pbRet>>

\* The reconnect timer fires.
ReconnectTimerFires ==
    /\ armed > 0
    /\ armed' = armed - 1
    /\ IF closed
       THEN /\ reconnectTimer' = FALSE
            /\ UNCHANGED <<sockets, ws, closed>>
       ELSE ConnectBridgeBody(TRUE, FALSE)
    /\ last' = Last("reconnectTimer", 0, NoThrow, <<>>, ErrNone)
    /\ UNCHANGED <<pending, listeners, idCounter, autoReconnect, settled, clock,
                   run, log, raw, printed, pbCall, pbRet>>

\* The socket's connection is established: ws.onopen resolves connectBridge's promise.
SocketOpens(s) ==
    /\ sockets[s].readyState = "CONNECTING"
    /\ sockets' = [sockets EXCEPT ![s].readyState = "OPEN", ![s].conn = "resolved",
                                   ![s].awaited = FALSE]
    /\ last' = Last("onopen", 0, NoThrow, <<>>, ErrNone)
    /\ UNCHANGED <<ws, pending, listeners, idCounter, closed, reconnectTimer, armed,
                   autoReconnect, settled, clock, run, log, raw, printed, pbCall, pbRet>>

\* The socket reaches CLOSED. A connection that was never established fires
\* error first (ws.onerror), whose rejection of connectBridge's promise runs a
\* timer callback's catch; then close fires (ws.onclose).
SocketCloses(s) ==
    /\ sockets[s].readyState \in {"CONNECTING", "OPEN", "CLOSING"}
    /\ LET closedSocks == [sockets EXCEPT ![s].readyState = "CLOSED"]
           errorRejects == /\ sockets[s].conn = "pending"
                           /\ ~WsIsOpen(closedSocks, ws)
           timerAfterError == IF errorRejects /\ sockets[s].awaited
                              THEN ScheduleReconnect(reconnectTimer)
                              ELSE reconnectTimer
           armedAfterError == IF errorRejects /\ sockets[s].awaited
                              THEN TimersAfterSchedule(reconnectTimer, armed)
                              ELSE armed
           rejected == CloseRejects(pending)
       IN /\ sockets' = [closedSocks EXCEPT
                            ![s].conn = IF errorRejects THEN "rejected" ELSE @]
          /\ settled' = [i \in DOMAIN settled |->
                            IF i \in rejected
                            THEN Append(settled[i], Outcome("rejected", ErrLost))
                            ELSE settled[i]]
          /\ pending' = PendingAfterClose(pending)
          /\ reconnectTimer' = IF autoReconnect /\ ~closed
                               THEN ScheduleReconnect(timerAfterError)
                               ELSE timerAfterError
          /\ armed' = IF autoReconnect /\ ~closed
                      THEN TimersAfterSchedule(timerAfterError, armedAfterError)
                      ELSE armedAfterError
    /\ last' = Last("onclose", 0, NoThrow, <<>>, ErrNone)
    /\ UNCHANGED <<ws, listeners, idCounter, closed, autoReconnect, clock,
                   run, log, raw, printed, pbCall, pbRet>>

\* ws.onmessage on an open socket: handleMessage(String(e.data)).
HandleMessageBody(s, m) ==
    /\ sockets[s].readyState = "OPEN"
    /\ IF MatchesPending(m, pending)
       THEN /\ pending' = PendingAfterResponse(pending, m.id)
            /\ settled' = [settled EXCEPT ![m.id] = @ \o SettleFromMessage(m)]
            /\ last' = Last("handleMessage", m.id,
                            IF ErrorReadThrows(m) THEN ThrowCode ELSE NoThrow,
                            <<>>, ErrNone)
       ELSE /\ UNCHANGED <<pending, settled>>
            /\ last' = Last("handleMessage", 0,
                            IF InOperatorThrows(m) THEN ThrowIn ELSE NoThrow,
                            IF IsEvent(m)
                            THEN Emit(listeners, m.event, OrEmpty(m.data))
                            ELSE <<>>,
                            ErrNone)
    /\ UNCHANGED <<sockets, ws, listeners, idCounter, closed, reconnectTimer, armed,
                   autoReconnect, clock>>

HandleMessage(s, m) ==
    /\ HandleMessageBody(s, m)
    /\ UNCHANGED <<run, log, raw, printed, pbCall, pbRet>>

\* ws.onmessage with the deliveries recorded: the text, the listener calls and
\* the resolve/reject calls it led to.
Delivers(s, m) ==
    /\ Len(log) < MaxDeliveries
    /\ HandleMessageBody(s, m)
    /\ log' = Append(log, [msg |-> m,
                           calls |-> Len(last'.calls),
                           settles |-> IF MatchesPending(m, pending)
                                       THEN Len(settled'[m.id]) - Len(settled[m.id])
                                       ELSE 0])
    /\ UNCHANGED <<run, raw, printed, pbCall, pbRet>>

\* A send without the readyState test: the request is stored and written
\* whatever the state of the socket.
SendBody_NoGuard(op, method) ==
    /\ idCounter' = NextId(idCounter)
    /\ pending' = PendingSet(pending, idCounter',
                             [sock |-> ws, at |-> clock, method |-> method])
    /\ last' = Last(op, idCounter', NoThrow, <<>>, ErrNone)

\* send(method, params), called by op: a closed or missing socket rejects the
\* promise; otherwise the request is stored under a fresh id and written.
SendBody(op, method) ==
    IF ~WsIsOpen(sockets, ws)
    THEN /\ last' = Last(op, 0, NoThrow, <<>>, ErrNotConnected)
         /\ UNCHANGED <<pending, idCounter>>
    ELSE /\ idCounter' = NextId(idCounter)
         /\ pending' = PendingSet(pending, idCounter',
                                  [sock |-> ws, at |-> clock, method |-> method])
         /\ last' = Last(op, idCounter', NoThrow, <<>>, ErrNone)

\* send(method, params) for a command of the glasses.
Send ==
    /\ WsIsOpen(sockets, ws) => idCounter < MaxId
    /\ SendBody("send", "command")
    /\ UNCHANGED <<sockets, ws, listeners, closed, reconnectTimer, armed,
                   autoReconnect, settled, clock, run, log, raw, printed, pbCall, pbRet>>

\* send(method, params) whose write throws: JSON.stringify(msg) on params it
\* cannot serialise, or ws.send itself. The entry is already stored; the throw
\* leaves the executor and the Promise constructor rejects the promise with it.
SendWriteThrows ==
    /\ WsIsOpen(sockets, ws)
    /\ idCounter < MaxId
    /\ idCounter' = NextId(idCounter)
    /\ pending' = PendingSet(pending, idCounter',
                             [sock |-> ws, at |-> clock, method |-> "command"])
    /\ settled' = [settled EXCEPT ![idCounter'] = Append(@, Outcome("rejected", ErrWrite))]
    /\ last' = Last("send", idCounter', NoThrow, <<>>, ErrWrite)
    /\ UNCHANGED <<sockets, ws, listeners, closed, reconnectTimer, armed,
                   autoReconnect, clock, run, log, raw, printed, pbCall, pbRet>>

\* A disconnect() that also closes the bridge connection.
Disconnect_ClosesBridge ==
    /\ WsIsOpen(sockets, ws) => idCounter < MaxId
    /\ SendBody("disconnect", "disconnect")
    /\ closed' = TRUE
    /\ reconnectTimer' = FALSE
    /\ armed' = IF reconnectTimer THEN armed - 1 ELSE armed
    /\ sockets' = IF ws # 0 THEN [sockets EXCEPT ![ws].readyState = "CLOSING"] ELSE sockets
    /\ ws' = 0
    /\ UNCHANGED <<listeners, autoReconnect, settled, clock, run, log, raw, printed, pbCall, pbRet>>

\* disconnect(): await this.send("disconnect")
Disconnect ==
    /\ WsIsOpen(sockets, ws) => idCounter < MaxId
    /\ SendBody("disconnect", "disconnect")
    /\ UNCHANGED <<sockets, ws, listeners, closed, reconnectTimer, armed,
                   autoReconnect, settled, clock, run, log, raw, printed, pbCall, pbRet>>

\* A closeBridge() that leaves an armed reconnect timer running.
CloseBridgeBody_KeepsTimer ==
    /\ closed' = TRUE
    /\ UNCHANGED <<reconnectTimer, armed>>
    /\ IF ws # 0
       THEN /\ sockets' = [sockets EXCEPT ![ws].readyState =
                              IF @ \in {"CONNECTING", "OPEN"} THEN "CLOSING" ELSE @]
            /\ ws' = 0
       ELSE UNCHANGED <<sockets, ws>>

\* closeBridge()
CloseBridgeBody ==
    /\ closed' = TRUE
    /\ reconnectTimer' = FALSE
    /\ armed' = IF reconnectTimer THEN armed - 1 ELSE armed
    /\ IF ws # 0
       THEN /\ sockets' = [sockets EXCEPT ![ws].readyState =
                              IF @ \in {"CONNECTING", "OPEN"} THEN "CLOSING" ELSE @]
            /\ ws' = 0
       ELSE UNCHANGED <<sockets, ws>>

CloseBridge ==
    /\ CloseBridgeBody
    /\ last' = Last("closeBridge", 0, NoThrow, <<>>, ErrNone)
    /\ UNCHANGED <<pending, listeners, idCounter, autoReconnect, settled, clock,
                   run, log, raw, printed, pbCall, pbRet>>

\* on(event, handler)
On(e, h) ==
    /\ listeners' = [listeners EXCEPT ![e] = IF InSeq(@, h) THEN @ ELSE Append(@, h)]
    /\ last' = Last("on", 0, NoThrow, <<>>, ErrNone)
    /\ UNCHANGED <<sockets, ws, pending, idCounter, closed, reconnectTimer, armed,
                   autoReconnect, settled, clock, run, log, raw, printed, pbCall, pbRet>>

\* off(event, handler)
Off(e, h) ==
    /\ listeners' = [listeners EXCEPT ![e] = SeqRemove(@, h)]
    /\ last' = Last("off", 0, NoThrow, <<>>, ErrNone)
    /\ UNCHANGED <<sockets, ws, pending, idCounter, closed, reconnectTimer, armed,
                   autoReconnect, settled, clock, run, log, raw, printed, pbCall, pbRet>>

\* Time passes, up to the limit of the clock.
Elapse(limit) ==
    /\ clock < limit
    /\ clock' = clock + 1
    /\ last' = Last("tick", 0, NoThrow, <<>>, ErrNone)
    /\ UNCHANGED <<sockets, ws, pending, listeners, idCounter, closed,
                   reconnectTimer, armed, autoReconnect, settled, run, log, raw, printed, pbCall, pbRet>>

Tick == Elapse(MaxClock)

\* ------------------------------------------------- the examples' main()
\* One tick of the clock, in milliseconds.
TickMs == 500

Ticks(ms) == ms \div TickMs

\* nav-directions.ts: the pause after startNavigation and after each update;
\* hello.ts: the pause before close(). The number of updates is bounded.
StartWaitMs == 1000
UpdateWaitMs == 2500
HelloWaitMs == 3000
NavUpdates == 1

\* A call of main() and the sleep that follows it.
Step(method, waitMs) == [method |-> method, wait |-> Ticks(waitMs)]

NavSteps ==
    <<Step("connect", 0), Step("startNavigation", StartWaitMs)>>
    \o [i \in 1..NavUpdates |-> Step("setNavigation", UpdateWaitMs)]
    \o <<Step("stopNavigation", 0), Step("close", 0)>>

HelloSteps ==
    <<Step("connect", 0), Step("setText", HelloWaitMs), Step("close", 0)>>

Programs == {"nav", "hello"}

Steps(prog) == IF prog = "nav" THEN NavSteps ELSE HelloSteps

\* The request ids a run can use, and the time a whole run takes.
SeqIds == 1..Len(NavSteps)
SeqClock == Ticks(StartWaitMs) + NavUpdates * Ticks(UpdateWaitMs) + 1

\* What the bridge answers to a request: an acknowledgement or an error.
SeqMessages ==
    {RawMessage("object", Absent, Absent, i, e, Absent) : i \in SeqIds, e \in {Absent, "E1"}}

\* new G2() with the default options, and a main() about to start.
InitSeq ==
    /\ sockets = <<>>
    /\ ws = 0
    /\ pending = NoPending
    /\ listeners = [e \in EventNames |-> <<>>]
    /\ idCounter = 0
    /\ closed = FALSE
    /\ reconnectTimer = FALSE
    /\ autoReconnect = TRUE
    /\ settled = [i \in SeqIds |-> <<>>]
    /\ clock = 0
    /\ last = Last("new", 0, NoThrow, <<>>, ErrNone)
    /\ \E prog \in Programs : run = [NoRun EXCEPT !.prog = prog]
    /\ log = <<>>
    /\ raw = <<>>
    /\ printed = NotPrinted
    /\ armed = 0
    /\ pbCall = NoCall
    /\ pbRet = NoRet

\* A sleep that is not awaited: main() goes on at once.
WakeTime_NotAwaited(now, wait) == now

\* await new Promise((r) => setTimeout(r, ms)): the earliest time main() goes on.
WakeTime(now, wait) == now + wait

\* The process is still there (main().catch ends it with process.exit(1)).
Alive == run.pc # "exited"

\* main() rejects: its catch logs the error and exits.
Exits ==
    /\ run' = [run EXCEPT !.pc = "exited"]
    /\ UNCHANGED <<sockets, ws, closed, reconnectTimer, armed, pending, idCounter, last, log>>

\* close() after its try/catch: closeBridge(), and main() is done.
CloseReturns(k) ==
    /\ CloseBridgeBody
    /\ last' = Last("close", 0, NoThrow, <<>>, ErrNone)
    /\ run' = [run EXCEPT !.pc = "done", !.step = k]
    /\ UNCHANGED <<pending, idCounter, log>>

\* main() calls step k and runs on to its next await: a command awaits the
\* promise of its send, and ends main() when send rejects at once; close()
\* sends "disconnect" only on an open socket.
CallStep(k) ==
    LET call == Steps(run.prog)[k].method
        method == IF call = "close" THEN "disconnect" ELSE call
    IN IF WsIsOpen(sockets, ws)
       THEN /\ SendBody(call, method)
            /\ run' = [run EXCEPT !.pc = "await", !.step = k, !.id = idCounter']
            /\ log' = Append(log, [step |-> k, at |-> clock])
            /\ UNCHANGED <<sockets, ws, closed, reconnectTimer, armed>>
       ELSE IF call = "close"
            THEN CloseReturns(k)
            ELSE /\ SendBody(call, method)
                 /\ run' = [run EXCEPT !.pc = "exited", !.step = k]
                 /\ UNCHANGED <<sockets, ws, closed, reconnectTimer, armed, log>>

\* main() starts: connect() calls connectBridge() and awaits its promise.
MainStarts ==
    /\ run.pc = "idle"
    /\ run.prog \in Programs
    /\ ConnectBridgeBody(FALSE, reconnectTimer)
    /\ UNCHANGED armed
    /\ last' = Last("connect", 0, NoThrow, <<>>, ErrNone)
    /\ run' = [run EXCEPT !.pc = "awaitBridge", !.step = 1, !.sock = ws']
    /\ UNCHANGED <<pending, listeners, idCounter, autoReconnect, settled, clock,
                   log, raw, printed, pbCall, pbRet>>

\* connectBridge()'s promise has settled: connect() sends "connect", or throws.
ConnectResumes ==
    /\ run.pc = "awaitBridge"
    /\ sockets[run.sock].conn # "pending"
    /\ IF sockets[run.sock].conn = "resolved" THEN CallStep(1) ELSE Exits
    /\ UNCHANGED <<listeners, autoReconnect, settled, clock, raw, printed, pbCall, pbRet>>

\* The promise main() awaits has settled: a rejection ends main() (close()
\* swallows it), a command with a pause sleeps, any other calls the next step.
AwaitResumes ==
    /\ run.pc = "await"
    /\ settled[run.id] # <<>>
    /\ LET step == Steps(run.prog)[run.step]
       IN IF step.method = "close"
          THEN CloseReturns(run.step)
          ELSE IF settled[run.id][1].kind = "rejected"
          THEN Exits
          ELSE IF WakeTime(clock, step.wait) > clock
          THEN /\ run' = [run EXCEPT !.pc = "sleep", !.wake = WakeTime(clock, step.wait)]
               /\ UNCHANGED <<sockets, ws, closed, reconnectTimer, armed, pending, idCounter,
                              last, log>>
          ELSE CallStep(run.step + 1)
    /\ UNCHANGED <<listeners, autoReconnect, settled, clock, raw, printed, pbCall, pbRet>>

\* The sleep's timer fires, no earlier than its delay: main() calls the next step.
SleepEnds ==
    /\ run.pc = "sleep"
    /\ clock >= run.wake
    /\ CallStep(run.step + 1)
    /\ UNCHANGED <<listeners, autoReconnect, settled, clock, raw, printed, pbCall, pbRet>>

MainRuns == MainStarts \/ ConnectResumes \/ AwaitResumes \/ SleepEnds

\* The promise main() awaits has settled: its continuation is a microtask and
\* runs before the next event of a socket or timer is handled.
MainReady ==
    \/ run.pc = "await" /\ settled[run.id] # <<>>
    \/ run.pc = "awaitBridge" /\ sockets[run.sock].conn # "pending"

\* The event loop takes the next event.
NextEvent == Alive /\ ~MainReady

\* ------------------------------------------- device-info: printResponse
\* The bytes of a response frame, by position (from 1):
\* AA 21 seq len tot ser svc_hi svc_lo [protobuf] [crc16].
HeaderBytes == 8
CrcBytes == 2

PktLen(f) == f[4]
PktTot(f) == f[5]
PktSer(f) == f[6]

\* The length, total and index bytes the bridge can hand over, the service
\* ids, and the payloads (protobuf fields 1 and 2 as varints).
LenBytes == {1, 3, 4, 6, 201}
TotBytes == {0, 1, 2, 21}
SerBytes == {0, 1, 2, 3}
Services == {<<128, 32>>, <<9, 0>>}
Payloads == {<<>>, <<8>>, <<8, 12>>, <<8, 12, 16, 1>>}

Frame(len, tot, ser, svc, payload) ==
    <<170, 33, 1, len, tot, ser>> \o svc \o payload \o <<0, 0>>

Frames ==
    {Frame(len, tot, ser, svc, payload) :
        len \in LenBytes, tot \in TotBytes, ser \in SerBytes,
        svc \in Services, payload \in Payloads}

\* raw.length, the frame being two hex digits per byte.
HexLength(f) == 2 * Len(f)

\* raw.slice(from, to) on the hex text, for even offsets, as bytes.
HexSlice(f, from, to) == SubSeq(f, from \div 2 + 1, to \div 2)

\* printResponse(raw): a frame of at most 20 hex digits is printed as short;
\* of any other the service id and the payload are printed, and a payload
\* that is not empty is handed to parseProtobuf.
PrintResponse(f) ==
    IF HexLength(f) <= 20
    THEN [short |-> TRUE, service |-> <<>>, payload |-> <<>>, parsed |-> FALSE,
          done |-> TRUE]
    ELSE LET payloadHex == HexSlice(f, 16, HexLength(f) - 4)
         IN [short |-> FALSE,
             service |-> HexSlice(f, 12, 14) \o HexSlice(f, 14, 16),
             payload |-> payloadHex,
             parsed |-> payloadHex # <<>>,
             done |-> TRUE]

\* A response of sendRaw is about to be printed.
InitDecode ==
    /\ sockets = <<>>
    /\ ws = 0
    /\ pending = NoPending
    /\ listeners = [e \in EventNames |-> <<>>]
    /\ idCounter = 0
    /\ closed = FALSE
    /\ reconnectTimer = FALSE
    /\ autoReconnect = TRUE
    /\ settled = [i \in Ids |-> <<>>]
    /\ clock = 0
    /\ last = Last("new", 0, NoThrow, <<>>, ErrNone)
    /\ run = NoRun
    /\ log = <<>>
    /\ raw \in Frames
    /\ printed = NotPrinted
    /\ armed = 0
    /\ pbCall = NoCall
    /\ pbRet = NoRet

\* for (const r of resps) printResponse(r)
PrintsResponse ==
    /\ raw # <<>>
    /\ ~printed.done
    /\ printed' = PrintResponse(raw)
    /\ UNCHANGED <<sockets, ws, pending, listeners, idCounter, closed, reconnectTimer, armed,
                   autoReconnect, settled, clock, last, run, log, raw, pbCall, pbRet>>

NextDecode == PrintsResponse

SpecDecode == InitDecode /\ [][NextDecode]_vars

\* -------------------------------------------- device-info: protobuf helpers
MaxField == 32
MaxData == 2
MaxBytes == 3
MaxFields == 4

\* The least int32, -2^31.
Int32Min == (-2147483647) - 1

\* A JS number n with 0 <= n < 2^32, held by its ToInt32 image:
\* n = wrap * 2^32 + i32. The bit operators see i32 only.
Num(wrap, i32) == [wrap |-> wrap, i32 |-> i32]

\* n === v for an int32 v
NumEq(n, v) == n.wrap = 0 /\ n.i32 = v

\* Bit i (0..30) of the two's complement of an int32.
Bit(x, i) == (x \div 2^i) % 2

RECURSIVE OrBits(_, _, _)
OrBits(a, b, i) ==
    IF i < 0 THEN 0
    ELSE (IF Bit(a, i) = 1 \/ Bit(b, i) = 1 THEN 2^i ELSE 0) + OrBits(a, b, i - 1)

\* a | b on int32
OrInt32(a, b) ==
    IF a < 0 \/ b < 0 THEN (OrBits(a, b, 30) - 2147483647) - 1 ELSE OrBits(a, b, 30)

\* x << shift for x in 0..127: the count is taken modulo 32 and the result
\* is an int32, bit 31 its sign.
ShlInt32(x, shift) ==
    LET k == shift % 32
        keep == 31 - k
        low == IF keep >= 7 THEN x ELSE x % 2^keep
        sign == IF keep >= 7 THEN 0 ELSE (x \div 2^keep) % 2
    IN IF k = 31 THEN (IF sign = 1 THEN Int32Min ELSE 0)
       ELSE IF sign = 1 THEN (low * 2^k - 2147483647) - 1
       ELSE low * 2^k

\* encodeVarint: `value > 0x7f` compares the number; `value & 0x7f` and
\* `value >>= 7` work on its int32 image, the shift keeping the sign.
RECURSIVE EncodeVarint(_)
EncodeVarint(value) ==
    IF value.wrap > 0 \/ value.i32 > 127
    THEN <<(value.i32 % 128) + 128>> \o EncodeVarint(Num(0, value.i32 \div 128))
    ELSE <<value.i32 % 128>>

\* pbVarint: [(field << 3) | 0, ...encodeVarint(value)]
PbVarint(field, value) == <<field * 8>> \o EncodeVarint(value)

\* pbBytes: [(field << 3) | 2, ...encodeVarint(data.length), ...data]
PbBytes(field, data) ==
    <<field * 8 + 2>> \o EncodeVarint(Num(0, Len(data))) \o data

\* b.toString(16).padStart(2, "0"), as hex digits
HexDigits(b) ==
    IF b < 256 THEN <<b \div 16, b % 16>>
    ELSE <<b \div 256, (b \div 16) % 16, b % 16>>

RECURSIVE ToHex(_)
ToHex(bytes) ==
    IF bytes = <<>> THEN <<>> ELSE HexDigits(Head(bytes)) \o ToHex(Tail(bytes))

\* Buffer.from(hex, "hex"): one byte per pair of digits, a last odd digit dropped.
FromHex(hex) == [i \in 1..(Len(hex) \div 2) |-> hex[2 * i - 1] * 16 + hex[2 * i]]

\* bytes[p]: undefined outside the buffer, which every bit operator takes as 0.
ByteAt(bytes, p) == IF p >= 0 /\ p < Len(bytes) THEN bytes[p + 1] ELSE 0

\* The varint loop of parseProtobuf, from pos on.
RECURSIVE ReadVarint(_, _, _, _)
ReadVarint(bytes, pos, value, shift) ==
    IF pos < Len(bytes)
    THEN LET b == ByteAt(bytes, pos)
             v == OrInt32(value, ShlInt32(b % 128, shift))
         IN IF (b \div 128) % 2 = 0
            THEN [value |-> v, pos |-> pos + 1]
            ELSE ReadVarint(bytes, pos + 1, v, shift + 7)
    ELSE [value |-> value, pos |-> pos]

\* An index of subarray, taken from the end when negative and clamped.
Relative(i, n) ==
    IF i < 0 THEN (IF n + i < 0 THEN 0 ELSE n + i)
    ELSE IF i > n THEN n ELSE i

\* bytes.subarray(start, end)
Subarray(bytes, start, end) ==
    SubSeq(bytes, Relative(start, Len(bytes)) + 1, Relative(end, Len(bytes)))

\* An entry of fields: value is the varint or the declared length, data the
\* bytes of a bytes field or the little-endian bytes of a fixed-width number.
PbField(field, type, value, data) ==
    [field |-> field, type |-> type, value |-> value, data |-> data]

\* Where parseProtobuf stands: pos, and in read the position it held before
\* the last `pos += ...`.
ParseState(pos, fields, status, read) ==
    [pos |-> pos, fields |-> fields, status |-> status, read |-> read]

\* One pass of the outer loop of parseProtobuf at st.pos < bytes.length.
\* readUInt32LE and readBigUInt64LE throw a RangeError when the number does
\* not lie wholly inside the buffer.
ParseIteration(bytes, st) ==
    LET tag == ByteAt(bytes, st.pos)
        pos == st.pos + 1
        fieldNum == tag \div 8
        wireType == tag % 8
        vr == ReadVarint(bytes, pos, 0, 0)
        width == IF wireType = 5 THEN 4 ELSE 8
    IN CASE wireType = 0 ->
              ParseState(vr.pos,
                         Append(st.fields, PbField(fieldNum, "varint", vr.value, <<>>)),
                         "running", vr.pos)
         [] wireType = 2 ->
              ParseState(vr.pos + vr.value,
                         Append(st.fields,
                                PbField(fieldNum, "bytes", vr.value,
                                        Subarray(bytes, vr.pos, vr.pos + vr.value))),
                         "running", vr.pos)
         [] wireType \in {1, 5} ->
              IF pos < 0 \/ pos + width > Len(bytes)
              THEN ParseState(pos, st.fields, "threw", pos)
              ELSE ParseState(pos + width,
                              Append(st.fields,
                                     PbField(fieldNum,
                                             IF wireType = 5 THEN "fixed32" ELSE "fixed64",
                                             0, SubSeq(bytes, pos + 1, pos + width))),
                              "running", pos)
         [] OTHER -> ParseState(pos, st.fields, "returned", pos)

\* The test of the outer loop, then one pass.
ParseNext(bytes, st) ==
    IF st.pos < Len(bytes) THEN ParseIteration(bytes, st)
    ELSE ParseState(st.pos, st.fields, "returned", st.pos)

RECURSIVE ParseRun(_, _)
ParseRun(bytes, st) ==
    IF st.status # "running" THEN st ELSE ParseRun(bytes, ParseNext(bytes, st))

\* parseProtobuf(hex)
ParseProtobuf(hex) == ParseRun(FromHex(hex), ParseState(0, <<>>, "running", 0))

PbRet(done, out, hex, st) ==
    [done |-> done, out |-> out, hex |-> hex,
     pos |-> st.pos, fields |-> st.fields, status |-> st.status, read |-> st.read]

Call(fn, field, value, data) == [fn |-> fn, field |-> field, value |-> value, data |-> data]

\* The numbers handed to the encoders: the ends of each length of varint,
\* 2^31 - 1, 2^31 and 2^32 - 1.
VarintValues ==
    {Num(0, v) : v \in {0, 1, 12, 127, 128, 300, 16383, 16384, 2097151, 2097152,
                        268435455, 268435456, 2147483647}}
    \cup {Num(1, Int32Min), Num(1, -1)}

FieldNumbers == 1..MaxField

DataBytes == {0, 8, 255}

RECURSIVE ByteLists(_, _)
ByteLists(alphabet, n) ==
    IF n = 0 THEN {<<>>}
    ELSE LET shorter == ByteLists(alphabet, n - 1)
         IN shorter \cup {Append(q, b) : q \in {r \in shorter : Len(r) = n - 1}, b \in alphabet}

EncodeCalls ==
    {Call("encodeVarint", 0, v, <<>>) : v \in VarintValues}
    \cup {Call("pbVarint", f, v, <<>>) : f \in FieldNumbers, v \in VarintValues}
    \cup {Call("pbBytes", f, Num(0, 0), d) : f \in FieldNumbers, d \in ByteLists(DataBytes, MaxData)}

InitEncode ==
    /\ sockets = <<>>
    /\ ws = 0
    /\ pending = NoPending
    /\ listeners = [e \in EventNames |-> <<>>]
    /\ idCounter = 0
    /\ closed = FALSE
    /\ reconnectTimer = FALSE
    /\ autoReconnect = TRUE
    /\ settled = [i \in Ids |-> <<>>]
    /\ clock = 0
    /\ last = Last("new", 0, NoThrow, <<>>, ErrNone)
    /\ run = NoRun
    /\ log = <<>>
    /\ raw = <<>>
    /\ printed = NotPrinted
    /\ armed = 0
    /\ pbCall \in EncodeCalls
    /\ pbRet = NoRet

\* The helper is called; its array is turned to hex and parsed back.
Encodes ==
    /\ ~pbRet.done
    /\ pbCall.fn \in {"encodeVarint", "pbVarint", "pbBytes"}
    /\ LET out == CASE pbCall.fn = "encodeVarint" -> EncodeVarint(pbCall.value)
                    [] pbCall.fn = "pbVarint" -> PbVarint(pbCall.field, pbCall.value)
                    [] pbCall.fn = "pbBytes" -> PbBytes(pbCall.field, pbCall.data)
       IN pbRet' = PbRet(TRUE, out, ToHex(out), ParseProtobuf(ToHex(out)))
    /\ UNCHANGED <<sockets, ws, pending, listeners, idCounter, closed, reconnectTimer, armed,
                   autoReconnect, settled, clock, last, run, log, raw, printed, pbCall>>

NextEncode == Encodes

SpecEncode == InitEncode /\ [][NextEncode]_vars

\* The bytes a payload is made of: the tags of field 1 with wire types 0, 2,
\* 5, 1 and 7, and varint bytes with and without the continuation bit.
ParseBytes == {8, 10, 13, 9, 15, 1, 128, 255}

\* Payloads with a five-byte length: bit 31 of the length set.
LongPayloads ==
    {<<10, 255, 255, 255, 255, 15>>, <<10, 250, 255, 255, 255, 15>>,
     <<8, 255, 255, 255, 255, 15>>, <<8, 128, 128, 128, 128, 128, 1>>,
     <<10, 128, 128, 128, 128, 8>>, <<8, 1, 10, 248, 255, 255, 255, 15>>,
     <<13, 1, 2, 3, 4>>, <<9, 1, 2, 3, 4, 5, 6, 7, 8>>, <<10, 2, 8, 0>>}

ParseInputs == ByteLists(ParseBytes, MaxBytes) \cup LongPayloads

InitParse ==
    /\ sockets = <<>>
    /\ ws = 0
    /\ pending = NoPending
    /\ listeners = [e \in EventNames |-> <<>>]
    /\ idCounter = 0
    /\ closed = FALSE
    /\ reconnectTimer = FALSE
    /\ autoReconnect = TRUE
    /\ settled = [i \in Ids |-> <<>>]
    /\ clock = 0
    /\ last = Last("new", 0, NoThrow, <<>>, ErrNone)
    /\ run = NoRun
    /\ log = <<>>
    /\ raw = <<>>
    /\ printed = NotPrinted
    /\ armed = 0
    /\ pbCall \in {Call("parseProtobuf", 0, Num(0, 0), d) : d \in ParseInputs}
    /\ pbRet = PbRet(FALSE, <<>>, ToHex(pbCall.data), ParseState(0, <<>>, "running", 0))

\* parseProtobuf goes once round its outer loop, or leaves it.
ParsesNext ==
    /\ pbCall.fn = "parseProtobuf"
    /\ pbRet.status = "running"
    /\ Len(pbRet.fields) < MaxFields
    /\ LET st == ParseNext(FromHex(pbRet.hex), ParseState(pbRet.pos, pbRet.fields, "running", pbRet.read))
       IN pbRet' = PbRet(st.status # "running", <<>>, pbRet.hex, st)
    /\ UNCHANGED <<sockets, ws, pending, listeners, idCounter, closed, reconnectTimer, armed,
                   autoReconnect, settled, clock, last, run, log, raw, printed, pbCall>>

NextParse == ParsesNext

SpecParse == InitParse /\ [][NextParse]_vars

Next ==
    \/ ConnectBridge
    \/ ReconnectTimerFires
    \/ \E s \in SocketIds : SocketOpens(s)
    \/ \E s \in SocketIds : SocketCloses(s)
    \/ \E s \in SocketIds, m \in RawMessages : HandleMessage(s, m)
    \/ Send
    \/ CloseBridge

Spec == Init /\ [][Next]_vars

\* setTimeout: an armed reconnect timer that is not cleared does fire.
SpecReconnect == Init /\ [][Next]_vars /\ WF_vars(ReconnectTimerFires)

\* The client over a transport whose write can fail.
NextWrite ==
    \/ ConnectBridge
    \/ ReconnectTimerFires
    \/ \E s \in SocketIds : SocketOpens(s)
    \/ \E s \in SocketIds : SocketCloses(s)
    \/ \E s \in SocketIds, m \in RawMessages : HandleMessage(s, m)
    \/ Send
    \/ SendWriteThrows
    \/ CloseBridge

SpecWrite == Init /\ [][NextWrite]_vars

\* The client with disconnect() among its calls.
NextApi ==
    \/ ConnectBridge
    \/ ReconnectTimerFires
    \/ \E s \in SocketIds : SocketOpens(s)
    \/ \E s \in SocketIds : SocketCloses(s)
    \/ \E s \in SocketIds, m \in RawMessages : HandleMessage(s, m)
    \/ Send
    \/ Disconnect
    \/ CloseBridge

SpecApi == Init /\ [][NextApi]_vars

\* An example's main() against a bridge that answers, fails or stays silent.
NextSeq ==
    \/ MainStarts
    \/ ConnectResumes
    \/ AwaitResumes
    \/ SleepEnds
    \/ NextEvent /\ ReconnectTimerFires
    \/ NextEvent /\ \E s \in SocketIds : SocketOpens(s)
    \/ NextEvent /\ \E s \in SocketIds : SocketCloses(s)
    \/ NextEvent /\ \E s \in SocketIds, m \in SeqMessages : HandleMessage(s, m)
    \/ Elapse(SeqClock)

\* main() goes on whenever it can, and time passes.
SpecSeq ==
    InitSeq /\ [][NextSeq]_vars /\ WF_vars(MainRuns) /\ WF_vars(Elapse(SeqClock))

\* new G2(): the default options.
InitDefault == Init /\ autoReconnect = TRUE

\* The client with its event stream in use while connections stay up: on() and
\* off() at any moment.
NextEvents ==
    \/ ConnectBridge
    \/ \E s \in SocketIds : SocketOpens(s)
    \/ \E s \in SocketIds, m \in RawMessages : HandleMessage(s, m)
    \/ Send
    \/ \E e \in EventNames, h \in Handlers : On(e, h)
    \/ \E e \in EventNames, h \in Handlers : Off(e, h)

SpecEvents == InitDefault /\ [][NextEvents]_vars

\* The client observed against the clock.
NextTimed ==
    \/ ConnectBridge
    \/ \E s \in SocketIds : SocketOpens(s)
    \/ \E s \in SocketIds : SocketCloses(s)
    \/ \E s \in SocketIds, m \in RawMessages : HandleMessage(s, m)
    \/ Send
    \/ CloseBridge
    \/ Tick

SpecTimed == Init /\ [][NextTimed]_vars

\* What each lens can forward: an event, a response to a request, a text
\* that is no JSON.
DualMessages ==
    {RawMessage("object", "response", "d1", 0, Absent, Absent),
     RawMessage("object", Absent, Absent, 1, Absent, "r1"),
     RawMessage("invalid", Absent, Absent, 0, Absent, Absent)}

\* The client on a bridge that may deliver a message twice, once per lens.
NextDual ==
    \/ ConnectBridge
    \/ \E s \in SocketIds : SocketOpens(s)
    \/ Send
    \/ \E e \in EventNames, h \in Handlers : On(e, h)
    \/ \E s \in SocketIds, m \in DualMessages : Delivers(s, m)

SpecDual == InitDefault /\ [][NextDual]_vars

\* ================================================================= claims
\* A socket's close event is delivered in this step.
CloseEventOf(s) ==
    /\ sockets[s].readyState # "CLOSED"
    /\ sockets'[s].readyState = "CLOSED"

\* The rejection every request cancelled by a close receives.
Lost == Outcome("rejected", ErrLost)

\* What a response is claimed to do to the promise of the request it answers.
ResponseOutcome(m) ==
    IF m.error # Absent
    THEN Outcome("rejected", ErrorText(m.error))
    ELSE Outcome("resolved", OrEmpty(m.result))

\* A parsed object that is a response (no "event" key).
IsResponse(m) == m.kind = "object" /\ m.event = Absent

\* C1: when handleMessage receives a non-event message whose id K is pending,
\* the promise of K is settled from that message (resolved with its result or
\* rejected with its error) and K is no longer pending afterwards.
C1_MatchingResponseSettles ==
    [][\A s \in SocketIds, m \in RawMessages :
          (HandleMessage(s, m) /\ IsResponse(m) /\ m.id \in DOMAIN pending)
          => /\ m.id \notin DOMAIN pending'
             /\ settled'[m.id] = Append(settled[m.id], ResponseOutcome(m))]_vars

TimeoutPlusSlack == MaxClock - 1

\* C3: a request that receives no matching response while its connection stays
\* open is over (with a timeout error) T + epsilon after its submission at the
\* latest: it does not stay pending beyond that.
C3_ExpiresByDeadline ==
    \A i \in DOMAIN pending :
        sockets[pending[i].sock].readyState = "OPEN"
        => clock - pending[i].at <= TimeoutPlusSlack

\* C4: when a socket's close event is delivered, every request pending at that
\* moment is rejected with 'Bridge connection lost' and the pending map is
\* empty afterwards.
C4_CloseCancelsAll ==
    [][\A s \in SocketIds :
          CloseEventOf(s)
          => /\ DOMAIN pending' = {}
             /\ \A i \in DOMAIN pending : settled'[i] = Append(settled[i], Lost)]_vars

\* A close event has just cancelled a request.
C4_Witness ==
    /\ last.op = "onclose"
    /\ DOMAIN pending = {}
    /\ \E i \in Ids : settled[i] = <<Lost>>

\* C5: a pending request is settled only by a message carrying its own id:
\* events and responses for other ids leave it pending and unsettled, however
\* many requests are outstanding, and the first response carrying its id
\* settles it.
C5_SettledByOwnIdOnly ==
    [][\A s \in SocketIds, m \in RawMessages, k \in DOMAIN pending :
          HandleMessage(s, m)
          => IF IsResponse(m) /\ m.id = k
             THEN k \notin DOMAIN pending' /\ Len(settled'[k]) = Len(settled[k]) + 1
             ELSE k \in DOMAIN pending' /\ settled'[k] = settled[k]]_vars

\* The listeners an unsolicited message is owed to: those of its event, or, for
\* a message that names no event, every registered listener.
Audience(m) ==
    IF IsEvent(m)
    THEN {listeners[m.event][i] : i \in 1..Len(listeners[m.event])}
    ELSE UNION {{listeners[e][i] : i \in 1..Len(listeners[e])} : e \in EventNames}

\* C6: an inbound message that matches no pending request is raised as an
\* event: it settles no request, and whenever listeners are registered for it
\* some listener is invoked; it is never silently discarded.
C6_UnmatchedIsRaised ==
    [][\A s \in SocketIds, m \in RawMessages :
          (HandleMessage(s, m) /\ m.kind = "object" /\ ~MatchesPending(m, pending))
          => /\ pending' = pending
             /\ settled' = settled
             /\ Audience(m) # {} => last'.calls # <<>>]_vars

\* C7: pending.set in send never replaces an unresolved entry: the id a send
\* registers is not in the pending map at that moment, has never been settled,
\* and the map grows by exactly that key.
C7_SendNeverOverwrites ==
    [][(last'.op = "send" /\ last'.err = ErrNone)
          => /\ last'.id \notin DOMAIN pending
             /\ settled[last'.id] = <<>>
             /\ DOMAIN pending' = DOMAIN pending \cup {last'.id}
             /\ \A k \in DOMAIN pending : pending'[k] = pending[k]]_vars

\* A send has just registered a second request beside an unresolved one.
C7_Witness ==
    /\ last.op = "send"
    /\ last.err = ErrNone
    /\ Cardinality(DOMAIN pending) = 2

\* C8: a request is rejected as connection-lost only by the close of the socket
\* it was written to: the close event of any other socket removes no request
\* sent on a different socket.
C8_CloseScopedToOwnSocket ==
    [][\A s \in SocketIds :
          CloseEventOf(s)
          => \A i \in DOMAIN pending \ DOMAIN pending' : pending[i].sock = s]_vars

\* C9: at most one socket is connecting or open at any moment.
C9_SingleLiveSocket ==
    Cardinality({s \in SocketIds : sockets[s].readyState \in {"CONNECTING", "OPEN"}}) <= 1

\* C10: for any raw text that is not valid JSON, or is valid JSON but not an
\* object, handleMessage returns without throwing and leaves the pending map
\* and the listeners unchanged.
C10_BadMessageDropped ==
    [][\A s \in SocketIds, m \in RawMessages :
          (HandleMessage(s, m) /\ m.kind \in {"invalid", "null", "number", "string"})
          => /\ last'.threw = NoThrow
             /\ pending' = pending
             /\ listeners' = listeners]_vars

\* C11: if a registered handler throws during emit, every handler registered
\* for that event is still invoked, in order and with the event's data,
\* handleMessage raises nothing, and the pending map and the promises are
\* unchanged.
C11_HandlerThrowContained ==
    [][\A s \in SocketIds, m \in RawMessages :
          (/\ IsEvent(m)
           /\ \E i \in 1..Len(listeners[m.event]) : HandlerThrows(listeners[m.event][i])
           /\ HandleMessage(s, m))
          => /\ Len(last'.calls) = Len(listeners[m.event])
             /\ \A i \in 1..Len(listeners[m.event]) :
                   last'.calls[i] = <<listeners[m.event][i], OrEmpty(m.data)>>
             /\ last'.threw = NoThrow
             /\ pending' = pending
             /\ settled' = settled]_vars

\* An event was handled with a request pending: the handler that throws was
\* called first and the handler registered after it was called too.
C11_Witness ==
    /\ last.op = "handleMessage"
    /\ Len(last.calls) = 2
    /\ HandlerThrows(last.calls[1][1])
    /\ ~HandlerThrows(last.calls[2][1])
    /\ DOMAIN pending # {}

\* C12: dispatch follows arrival: every effect of an inbound message (the
\* calls of the listeners of its event, the settling of the request it
\* answers) is made within the handleMessage call of that message, so before
\* the next message is handled; no other message's call settles that request
\* or makes those calls, and nothing is left over for a later call.
C12_EffectsInArrivalOrder ==
    [][/\ \A i \in Ids :
             settled'[i] # settled[i]
             => \/ \E s \in SocketIds : CloseEventOf(s)
                \/ \E s \in SocketIds, m \in RawMessages :
                      IsResponse(m) /\ m.id = i /\ HandleMessage(s, m)
       /\ last'.calls # <<>>
          => \E s \in SocketIds, m \in RawMessages :
                /\ IsEvent(m)
                /\ HandleMessage(s, m)
                /\ last'.calls = Emit(listeners, m.event, OrEmpty(m.data))
       /\ \A s \in SocketIds, m \in RawMessages :
             (/\ IsResponse(m)
              /\ m.id \in DOMAIN pending
              /\ ~ErrorReadThrows(m)
              /\ HandleMessage(s, m))
             => /\ settled'[m.id] = Append(settled[m.id], ResponseOutcome(m))
                /\ m.id \notin DOMAIN pending']_vars

\* Two messages arrived one after the other: the response settled its request,
\* then the event reached the listeners while another request was pending.
C12_Witness ==
    /\ last.op = "handleMessage"
    /\ last.calls # <<>>
    /\ \E i \in Ids : Len(settled[i]) = 1
    /\ DOMAIN pending # {}

\* The reconnect timer's callback runs in this step.
TimerFired == reconnectTimer /\ last'.op = "reconnectTimer"

C15_StepsInOrderAfterWait ==
    \A k \in 1..Len(log) :
        /\ log[k].step = k
        /\ k > 1 => log[k].at >= log[k - 1].at + Steps(run.prog)[k - 1].wait

\* nav-directions.ts ran to its end: every step was written and close() returned.
C15_Witness ==
    /\ run.prog = "nav"
    /\ run.pc = "done"
    /\ Len(log) = Len(NavSteps)

\* main() is inside close(), awaiting the answer to its "disconnect".
InClose ==
    /\ run.pc = "await"
    /\ Steps(run.prog)[run.step].method = "close"

\* C14: close() always terminates: once main() is inside close(), awaiting the
\* answer to "disconnect", close() returns, with the closed flag set, no
\* reconnect timer armed and ws null, whatever the bridge does.
C14_CloseTerminates ==
    InClose ~> (run.pc = "done" /\ closed /\ ~reconnectTimer /\ ws = 0)

\* main() is awaiting the acknowledgement of step k of nav-directions.ts.
AwaitingStep(k) == run.prog = "nav" /\ run.pc = "await" /\ run.step = k

\* C16: a run does not stall at a step that is never acknowledged: in the
\* five-step run (connect, startNavigation, setNavigation, stopNavigation,
\* close) main() never stays forever at the await of step 3; it goes on to
\* steps 4 and 5.
C16_NoStallAtUnackedStep ==
    []<>(~AwaitingStep(3))

\* The step left the bridge connection as it was.
BridgeKept ==
    /\ sockets' = sockets
    /\ ws' = ws
    /\ closed' = closed
    /\ reconnectTimer' = reconnectTimer

\* The step stored and wrote one new request, a "disconnect", on this.ws.
OneDisconnectSent ==
    /\ idCounter' \notin DOMAIN pending
    /\ DOMAIN pending' = DOMAIN pending \cup {idCounter'}
    /\ pending'[idCounter'].method = "disconnect"
    /\ pending'[idCounter'].sock = ws
    /\ \A k \in DOMAIN pending : pending'[k] = pending[k]

\* C20: disconnect() on an open bridge connection sends exactly one
\* "disconnect" request (on no open connection it sends none and rejects), and
\* in both cases leaves the sockets, this.ws, the closed flag and the reconnect
\* timer as they were.
C20_DisconnectKeepsBridge ==
    [][Disconnect
       => /\ BridgeKept
          /\ IF WsIsOpen(sockets, ws)
             THEN OneDisconnectSent /\ last'.err = ErrNone
             ELSE pending' = pending /\ last'.err = ErrNotConnected]_vars

\* disconnect() was called with the reconnect timer armed: its request is
\* pending on the open socket, which is still this.ws.
C20_Witness ==
    /\ last.op = "disconnect"
    /\ last.id \in DOMAIN pending
    /\ pending[last.id].method = "disconnect"
    /\ WsIsOpen(sockets, ws)
    /\ ~closed
    /\ reconnectTimer

\* C17: of a frame that is not a first fragment (index above 1) the bytes at
\* the service-id position are not reported as a service id.
C17_ServiceOnlyOfFirstFragment ==
    (printed.done /\ PktSer(raw) > 1) => printed.service = <<>>

\* The rules of a frame's header: the length within 2..200 and within the
\* buffer, the total within 1..20, the index within 1..total.
HeaderValid(f) ==
    /\ PktLen(f) \in 2..200
    /\ HeaderBytes - 2 + PktLen(f) + CrcBytes <= Len(f)
    /\ PktTot(f) \in 1..20
    /\ PktSer(f) \in 1..PktTot(f)

\* C18: of a frame that breaks a rule of the header the payload is neither
\* reported nor parsed.
C18_InvalidFrameRejected ==
    (printed.done /\ ~HeaderValid(raw))
    => (printed.payload = <<>> /\ ~printed.parsed)

\* C19: a message delivered twice in a row with the same bytes is dispatched
\* once: its second delivery calls no listener and settles no request.
C19_DuplicateDispatchedOnce ==
    \A k \in 2..Len(log) :
        log[k].msg = log[k - 1].msg
        => (log[k].calls = 0 /\ log[k].settles = 0)

\* A bridge connection of the run was lost: one of its sockets is closed
\* while main() is neither done nor inside close().
ConnectionLost ==
    /\ run.pc \in {"awaitBridge", "await", "sleep"}
    /\ ~InClose
    /\ \E s \in SocketIds : sockets[s].readyState = "CLOSED"

\* C21: once the connection was lost during a run, no later step of the run
\* is written to the transport, auto-reconnect or not.
C21_NoStepAfterConnectionLost ==
    [][ConnectionLost => log' = log]_vars

\* The close event of socket s, no connectBridge() promise of a reconnect
\* attempt hanging on it.
ClosesSettled(s) ==
    /\ last'.op = "onclose"
    /\ sockets[s].readyState # "CLOSED"
    /\ sockets'[s].readyState = "CLOSED"
    /\ ~(sockets[s].conn = "pending" /\ sockets[s].awaited)

\* C22: from closeBridge() until the user's next connectBridge() no WebSocket
\* is created: closeBridge() leaves no reconnect timer armed, a timer armed
\* afterwards by an attempt in flight creates no socket when it fires, and the
\* close event of a socket schedules no reconnect.
C22_NoSocketAfterCloseBridge ==
    [][/\ last'.op = "closeBridge" => closed' /\ ~reconnectTimer' /\ ws' = 0
       /\ (closed /\ last'.op # "connectBridge") =>
              /\ closed'
              /\ Len(sockets') = Len(sockets)
              /\ ws' = 0
              /\ \A s \in SocketIds : ClosesSettled(s) => reconnectTimer' = reconnectTimer
      ]_vars

\* The timer armed by a reconnect attempt that failed after closeBridge() has
\* fired, and no socket came of it.
C22_Witness ==
    /\ closed
    /\ last.op = "reconnectTimer"
    /\ ~reconnectTimer
    /\ \E s \in SocketIds : sockets[s].conn = "rejected"

\* C23: a command issued while there is no socket, or the socket is not
\* OPEN, is rejected with "Not connected to bridge" and changes nothing: no
\* pending entry, no new id, no request written.
C23_SendNotConnectedChangesNothing ==
    [][(last'.op = "send" /\ ~WsIsOpen(sockets, ws)) =>
          /\ last'.err = ErrNotConnected
          /\ last'.id = 0
          /\ pending' = pending
          /\ idCounter' = idCounter
          /\ settled' = settled
          /\ <<sockets', ws', log'>> = <<sockets, ws, log>>
      ]_vars

\* A command was rejected on a socket that had closed after an earlier
\* command had been sent.
C23_Witness ==
    /\ last.op = "send"
    /\ last.err = ErrNotConnected
    /\ ws # 0
    /\ sockets[ws].readyState = "CLOSED"
    /\ idCounter > 0

\* C24: every entry of the pending map belongs to a promise that is not
\* settled, a send whose write failed included.
C24_PendingOnlyUnsettled ==
    \A i \in DOMAIN pending : settled[i] = <<>>

\* C28: at most one reconnect timer is armed, and this.reconnectTimer is
\* non-null exactly when one is.
C28_OneReconnectTimer ==
    /\ armed <= 1
    /\ reconnectTimer <=> armed = 1

\* A reconnect attempt failed: scheduleReconnect() was called by the timer
\* callback's catch and again by the close event of the same socket, and one
\* timer is armed.
C28_Witness ==
    /\ last.op = "onclose"
    /\ autoReconnect
    /\ ~closed
    /\ reconnectTimer
    /\ armed = 1
    /\ \E s \in SocketIds :
          /\ sockets[s].awaited
          /\ sockets[s].conn = "rejected"
          /\ sockets[s].readyState = "CLOSED"

\* C25: for a field number in 1..15, the hex of pbVarint(field, v) parses
\* back to the one varint field (field, v) for every v below 2^32, and the hex
\* of pbBytes(field, data) to the one bytes field (field, len(data), data).
C25_TagLengthValueRoundTrip ==
    (pbRet.done /\ pbCall.field \in 1..15) =>
        /\ pbCall.fn = "pbVarint" =>
              /\ pbRet.status = "returned"
              /\ Len(pbRet.fields) = 1
              /\ pbRet.fields[1].field = pbCall.field
              /\ pbRet.fields[1].type = "varint"
              /\ NumEq(pbCall.value, pbRet.fields[1].value)
        /\ pbCall.fn = "pbBytes" =>
              /\ pbRet.status = "returned"
              /\ pbRet.fields =
                    <<PbField(pbCall.field, "bytes", Len(pbCall.data), pbCall.data)>>

\* C26: every element of the array encodeVarint, pbVarint or pbBytes returns
\* is in 0..255, so its hex has two digits for each element.
C26_ElementsAreBytes ==
    (pbRet.done /\ pbCall.fn \in {"encodeVarint", "pbVarint", "pbBytes"}) =>
        /\ \A i \in 1..Len(pbRet.out) : pbRet.out[i] \in 0..255
        /\ Len(pbRet.hex) = 2 * Len(pbRet.out)

\* C27: parseProtobuf never throws and its read position never moves
\* backwards, whatever the bytes.
C27_ParseTotalAndForward ==
    [][pbCall.fn = "parseProtobuf" =>
          /\ pbRet'.status # "threw"
          /\ pbRet'.read >= pbRet.pos
          /\ pbRet'.pos >= pbRet'.read
      ]_vars

====
